---- MODULE Spec2Model ----
(***************************************************************************)
(* ArcVault (contracts/ArcVault.sol): a USDC vault with deposit, withdraw  *)
(* and transfer, each guarded by nonReentrant and each making one external *)
(* token call after its balance writes.                                    *)
(*                                                                         *)
(* A call is modelled in two steps: entry (guard, checks, balance writes,  *)
(* up to the external token call) and the return of the token call (the    *)
(* token moves funds or fails; the vault emits its event and releases the  *)
(* guard, or the whole call reverts to the state at its entry).  Between   *)
(* the two steps control is inside the token, which may call back into the *)
(* vault: those are the calls made while the stack is not empty.           *)
(***************************************************************************)
EXTENDS Integers, Sequences, FiniteSets, TLC

\* ---------------------------------------------------------------- bounds
\* Largest amount passed to deposit/withdraw/transfer.
MaxAmt == 2
\* Number of events after which no further top-level call is issued.
MaxEvents == 3
\* Bit width of the unsigned integers (uint256 in the source).
Width == 2
\* USDC each user holds in the token at the start.
InitWallet == 2
\* Call depth limit of nested vault calls.
MaxDepth == 2
\* executeTx runs the frontend model lets be in progress at once.
MaxRuns == 2
\* refreshBalances runs the frontend model lets be in progress at once.
MaxRefreshes == 1

\* ------------------------------------------------------------- addresses
Users == {"A", "B"}
\* address(0)
ZERO == "Z"
\* address(this)
VAULT == "V"
\* the address of the USDC token contract
TOKEN == "T"
Addr == Users \cup {ZERO, VAULT}
Amounts == 0..MaxAmt
UINT_MAX == 2^Width - 1

VARIABLES
    ctorArg,    \* the _usdc argument the constructor was called with
    constructed,\* the outcome of the constructor: "ok" or the error it reverted with
    usdc,       \* IERC20 public immutable usdc (address(0) when no vault exists)
    balances,   \* mapping(address => uint256) balances
    status,     \* ReentrancyGuard._status
    tokenBal,   \* usdc.balanceOf(.)
    events,     \* the log of emitted events
    stack,      \* vault calls suspended in their external token call
    last,       \* the most recent transaction and its outcome
    reentry,    \* the outcome of the most recent call made from inside the token
    pre,        \* ghost: the state at entry of the current/last top-level call
    prev,       \* ghost: the transaction before `last`, when it was a
                \* successful deposit, with the depositor's balance at its entry
    ret,        \* what the last call of a view function returned
    pc,         \* frontend: where each executeTx run is suspended
    loading,    \* frontend: const [loading, setLoading] = useState("")
    error,      \* frontend: const [error, setError] = useState("")
    txHash,     \* frontend: const [txHash, setTxHash] = useState("")
    amountInput,    \* frontend: const [amount, setAmount] = useState("")
    recipientInput, \* frontend: const [recipient, setRecipient] = useState("")
    tab,        \* frontend: const [tab, setTab] = useState("deposit")
    allowance,  \* frontend: const [allowance, setAllowance] = useState("0")
    vaultAddress, \* frontend: const [vaultAddress, setVaultAddress] = useState(..)
    exit,       \* frontend: how the last executeTx run ended
    signer,     \* frontend: the account of the signer, "none" for null
    connectedAccount, \* frontend: const [account, setAccount] = useState("")
    isCorrectNetwork, \* frontend: const [isCorrectNetwork, ..] = useState(false)
    refreshes,  \* frontend: the refreshBalances runs in progress
    txClosure,  \* frontend: what the running executeTx captured at its click
    shownWallet,\* frontend: whose balance usdcBalance holds
    shownVault, \* frontend: whose balance in which vault vaultBalance holds
    shownAllowance \* frontend: whose allowance to which vault allowance holds

deployVars == <<ctorArg, constructed, usdc>>

vaultVars ==
    <<ctorArg, constructed, usdc,
      balances, status, tokenBal, events, stack, last, reentry, pre, prev>>

formVars ==
    <<pc, loading, error, txHash, amountInput, recipientInput, tab, allowance,
      exit>>

uiVars == <<formVars, vaultAddress>>

walletVars ==
    <<signer, connectedAccount, isCorrectNetwork, refreshes, txClosure,
      shownWallet, shownVault, shownAllowance>>

vars == <<vaultVars, ret, uiVars, walletVars>>

RECURSIVE SumOver(_, _)
SumOver(f, S) ==
    IF S = {} THEN 0
    ELSE LET x == CHOOSE y \in S : TRUE IN f[x] + SumOver(f, S \ {x})

\* The state a revert of a call restores.
State ==
    [balances |-> balances, status |-> status, tokenBal |-> tokenBal,
     events |-> events]

NoCall ==
    [op |-> "none", sender |-> ZERO, to |-> ZERO, amount |-> 0,
     result |-> "none", requested |-> 0, available |-> 0,
     signal |-> "none"]

NoDeposit == [sender |-> ZERO, amount |-> 0, balance |-> 0]

\* ---------------------------------------------------------- constructor
\* constructor(address _usdc), line 45: the error it reverts with, or "ok".
constructor_unchecked(_usdc) == "ok"
constructor(_usdc) ==
    IF _usdc = ZERO THEN "ZeroAddress" ELSE "ok"

\* line 46: the value the immutable usdc is bound to.
boundHandle_unset(_usdc) == ZERO
boundHandle(_usdc) == _usdc

\* ------------------------------------------------------ ReentrancyGuard
NOT_ENTERED == "NOT_ENTERED"
ENTERED == "ENTERED"

\* nonReentrant, before the body: revert when already entered.
nonReentrantRejects_off(st) == FALSE
nonReentrantRejects(st) == st = ENTERED

\* nonReentrant, after the body: the value written back to _status.
nonReentrantAfter_stuck == ENTERED
nonReentrantAfter == NOT_ENTERED

\* ------------------------------------------------------------ SafeERC20
\* What the token call signals: it returns true, returns nothing, returns
\* false, or reverts.
Signals == {"true", "void", "false", "revert"}

\* safeTransfer/safeTransferFrom succeed iff the call did not revert and
\* returned nothing or true.
safeERC20Success_unchecked(signal) == signal # "revert"
safeERC20Success_strict(signal) == signal = "true"
safeERC20Success(signal) == signal \in {"true", "void"}

\* ---------------------------------------------------- checks and effects
\* deposit, lines 59-61
depositCheck_wrapping(bal, sender, amount) ==
    IF amount = 0 THEN "ZeroAmount" ELSE "ok"
depositCheck(bal, sender, amount) ==
    IF amount = 0 THEN "ZeroAmount"
    ELSE IF bal[sender] + amount > UINT_MAX THEN "Panic"
    ELSE "ok"

depositEffects_twice(bal, sender, amount) ==
    [bal EXCEPT ![sender] = @ + amount + amount]
depositEffects(bal, sender, amount) ==
    [bal EXCEPT ![sender] = @ + amount]

\* withdraw, lines 72-76
withdrawCheck_nobalance(bal, sender, amount) ==
    IF amount = 0 THEN "ZeroAmount" ELSE "ok"
withdrawCheck_nozero(bal, sender, amount) ==
    IF bal[sender] < amount THEN "InsufficientBalance" ELSE "ok"
withdrawCheck(bal, sender, amount) ==
    IF amount = 0 THEN "ZeroAmount"
    ELSE IF bal[sender] < amount THEN "InsufficientBalance"
    ELSE "ok"

withdrawEffects_nodebit(bal, sender, amount) == bal
withdrawEffects_credit(bal, sender, amount) ==
    [bal EXCEPT ![sender] = @ + amount]
withdrawEffects(bal, sender, amount) ==
    [bal EXCEPT ![sender] = @ - amount]

\* transfer, lines 88-94
transferDebit(bal, sender, amount) ==
    [bal EXCEPT ![sender] = @ - amount]

transferCheck_amountfirst(bal, sender, to, amount) ==
    IF amount = 0 THEN "ZeroAmount"
    ELSE IF to = ZERO THEN "ZeroAddress"
    ELSE IF bal[sender] < amount THEN "InsufficientBalance"
    ELSE IF transferDebit(bal, sender, amount)[to] + amount > UINT_MAX THEN "Panic"
    ELSE "ok"
transferCheck_offbyone(bal, sender, to, amount) ==
    IF to = ZERO THEN "ZeroAddress"
    ELSE IF amount = 0 THEN "ZeroAmount"
    ELSE IF bal[sender] <= amount THEN "InsufficientBalance"
    ELSE IF transferDebit(bal, sender, amount)[to] + amount > UINT_MAX THEN "Panic"
    ELSE "ok"
transferCheck_creditfirst(bal, sender, to, amount) ==
    IF to = ZERO THEN "ZeroAddress"
    ELSE IF amount = 0 THEN "ZeroAmount"
    ELSE IF bal[sender] < amount THEN "InsufficientBalance"
    ELSE IF bal[to] + amount > UINT_MAX THEN "Panic"
    ELSE "ok"
transferCheck(bal, sender, to, amount) ==
    IF to = ZERO THEN "ZeroAddress"
    ELSE IF amount = 0 THEN "ZeroAmount"
    ELSE IF bal[sender] < amount THEN "InsufficientBalance"
    ELSE IF transferDebit(bal, sender, amount)[to] + amount > UINT_MAX THEN "Panic"
    ELSE "ok"

transferEffects_nodebit(bal, sender, to, amount) ==
    [bal EXCEPT ![to] = @ + amount]
transferEffects_reversed(bal, sender, to, amount) ==
    [transferDebit(bal, to, amount) EXCEPT ![sender] = @ + amount]
transferEffects(bal, sender, to, amount) ==
    [transferDebit(bal, sender, amount) EXCEPT ![to] = @ + amount]

\* The arguments of InsufficientBalance(requested, available), lines 74, 91.
InsufficientBalanceArgs_swapped(bal, sender, amount) ==
    [requested |-> bal[sender], available |-> amount]
InsufficientBalanceArgs(bal, sender, amount) ==
    [requested |-> amount, available |-> bal[sender]]

\* The external token call of each function (lines 62, 77, 95).
externalCall_pooled(op, sender, to, amount) ==
    IF op = "deposit"
    THEN [kind |-> "transferFrom", from |-> sender, to |-> VAULT, amount |-> amount]
    ELSE IF op = "withdraw"
    THEN [kind |-> "transfer", from |-> VAULT, to |-> sender, amount |-> amount]
    ELSE [kind |-> "transfer", from |-> VAULT, to |-> VAULT, amount |-> amount]
externalCall(op, sender, to, amount) ==
    IF op = "deposit"
    THEN [kind |-> "transferFrom", from |-> sender, to |-> VAULT, amount |-> amount]
    ELSE IF op = "withdraw"
    THEN [kind |-> "transfer", from |-> VAULT, to |-> sender, amount |-> amount]
    ELSE [kind |-> "transfer", from |-> VAULT, to |-> to, amount |-> amount]

\* The event each function emits (lines 64, 79, 97).
emitted_swapped(op, sender, to, amount) ==
    IF op = "deposit"
    THEN [name |-> "Deposited", from |-> sender, to |-> sender, amount |-> amount]
    ELSE IF op = "withdraw"
    THEN [name |-> "Withdrawn", from |-> sender, to |-> sender, amount |-> amount]
    ELSE [name |-> "Transferred", from |-> to, to |-> sender, amount |-> amount]
emitted(op, sender, to, amount) ==
    IF op = "deposit"
    THEN [name |-> "Deposited", from |-> sender, to |-> sender, amount |-> amount]
    ELSE IF op = "withdraw"
    THEN [name |-> "Withdrawn", from |-> sender, to |-> sender, amount |-> amount]
    ELSE [name |-> "Transferred", from |-> sender, to |-> to, amount |-> amount]

\* ------------------------------------------------------------ the token
\* A faithful ERC-20.  A call for more than the holder has fails.  A
\* transferFrom the holder can afford succeeds or fails according to whether
\* the holder has approved the vault for the amount; a transfer of the
\* vault's own funds that it can afford succeeds.  Success is signalled by
\* returning true or nothing, failure by returning false or reverting.
TokenSignals(tb, call) ==
    IF tb[call.from] < call.amount THEN {"false", "revert"}
    ELSE IF call.kind = "transferFrom" THEN {"true", "void", "false", "revert"}
    ELSE {"true", "void"}

\* The token moved the funds iff it signalled success.
TokenSucceeded(signal) == signal \in {"true", "void"}

TokenMoved(tb, call) ==
    LET out == [tb EXCEPT ![call.from] = @ - call.amount]
    IN  [out EXCEPT ![call.to] = @ + call.amount]

\* totalVaultBalance(), lines 114-116
totalVaultBalance == tokenBal[VAULT]

\* balanceOf(account), lines 107-109
balanceOf_token(account) == tokenBal[account]
balanceOf(account) == balances[account]

NoRet == [fn |-> "none", arg |-> ZERO, value |-> 0]

\* ------------------------------------------------------------- frontend
\* The executeTx runs that can be in progress at once.
Runs == 1..MaxRuns

\* The values typed into the amount and the recipient inputs.
AmountInputs == {"", "1", "2"}
RecipientInputs == {"", "0xB", "bogus"}
Tabs == {"deposit", "withdraw", "transfer"}

\* parseUnits(amount || "0", decimals), in units of the token
parseUnits(a) ==
    IF a = "" THEN 0 ELSE IF a = "1" THEN 1 ELSE 2

MaxAllowance == parseUnits("2")

\* isAddress(recipient)
isAddress(r) == r = "0xB"

\* What a rejected promise carries: reason, info.error.message and message
\* are each present or absent ("").
Rejections ==
    [reason : {"", "reason"}, infoMessage : {"", "info"}, message : {"", "message"}]

\* lines 228-229: e?.reason || e?.info?.error?.message || e?.message ||
\* "Transaction failed"
ErrorMessage_nofallback(e) ==
    IF e.reason # "" THEN e.reason
    ELSE IF e.infoMessage # "" THEN e.infoMessage
    ELSE e.message
ErrorMessage(e) ==
    IF e.reason # "" THEN e.reason
    ELSE IF e.infoMessage # "" THEN e.infoMessage
    ELSE IF e.message # "" THEN e.message
    ELSE "Transaction failed"

\* The vault addresses the user can configure; "" is none.
VaultAddresses == {"V1", "V2"}

\* line 73: !!vaultAddress && isAddress(vaultAddress)
vaultDeployed == vaultAddress # ""

\* No displayed value read yet, and the "0" an inner catch writes.
NoOwner == [addr |-> "none", vault |-> ""]
ZeroShown == [addr |-> "zero", vault |-> ""]

NoClosure == [live |-> FALSE, signer |-> "none", net |-> FALSE, vault |-> ""]

\* !!loading, which disables every action button (lines 856, 865, 874, 883)
isLoading_never == FALSE
isLoading == loading # ""

\* lines 286-289
needsApproval_lenient ==
    /\ tab = "deposit"
    /\ amountInput # ""
    /\ allowance + 1 < parseUnits(amountInput)
needsApproval ==
    /\ tab = "deposit"
    /\ amountInput # ""
    /\ allowance < parseUnits(amountInput)

\* ----------------------------------------------------------------- Init
\* The frontend after its first render (the useState initial values), with
\* a vault address configured or not.
UiInit(deployed) ==
    /\ pc = [r \in Runs |-> "idle"]
    /\ loading = ""
    /\ error = ""
    /\ txHash = ""
    /\ amountInput = ""
    /\ recipientInput = ""
    /\ tab = "deposit"
    /\ allowance = 0
    /\ vaultAddress = IF deployed THEN "V1" ELSE ""
    /\ exit = "none"
    /\ signer = "none"
    /\ connectedAccount = ""
    /\ isCorrectNetwork = FALSE
    /\ refreshes = {}
    /\ txClosure = NoClosure
    /\ shownWallet = "none"
    /\ shownVault = NoOwner
    /\ shownAllowance = NoOwner

Init ==
    /\ ret = NoRet
    /\ UiInit(FALSE)
    /\ ctorArg \in {ZERO, TOKEN}
    /\ constructed = constructor(ctorArg)
    /\ usdc = IF constructed = "ok" THEN boundHandle(ctorArg) ELSE ZERO
    /\ balances = [a \in Addr |-> 0]
    /\ status = NOT_ENTERED
    /\ tokenBal = [a \in Addr |-> IF a \in Users THEN InitWallet ELSE 0]
    /\ events = <<>>
    /\ stack = <<>>
    /\ last = NoCall
    /\ reentry = "none"
    /\ pre = [balances |-> [a \in Addr |-> 0], status |-> NOT_ENTERED,
              tokenBal |-> [a \in Addr |-> IF a \in Users THEN InitWallet ELSE 0],
              events |-> <<>>]
    /\ prev = NoDeposit

\* -------------------------------------------------------------- actions
\* A vault call can start as a transaction (empty stack) or from inside the
\* token while an earlier call waits for it (a callback).
\* No call reaches a vault whose construction reverted.
CanCall ==
    /\ constructed = "ok"
    /\ IF stack = <<>> THEN Len(events) < MaxEvents ELSE Len(stack) < MaxDepth

\* Entry of a call up to its external token call: err is what the guard and
\* the function's checks decide, newBal the balance map after its writes.
Begin_norevert(op, sender, to, amount, err, newBal) ==
    /\ UNCHANGED <<deployVars, ret, uiVars, walletVars>>
    /\ pre' = IF stack = <<>> THEN State ELSE pre
    /\ prev' = IF stack # <<>> THEN prev
               ELSE IF last.op = "deposit" /\ last.result = "ok"
               THEN [sender |-> last.sender, amount |-> last.amount,
                     balance |-> pre.balances[last.sender]]
               ELSE NoDeposit
    /\ reentry' = IF stack = <<>> THEN "none"
                  ELSE IF err # "ok" THEN err ELSE "entered"
    /\ last' = IF stack # <<>> THEN last
               ELSE [op |-> op, sender |-> sender, to |-> to, amount |-> amount,
                     result |-> IF err # "ok" THEN err ELSE "pending",
                     requested |-> IF err = "InsufficientBalance"
                                   THEN InsufficientBalanceArgs(balances, sender,
                                                                amount).requested
                                   ELSE 0,
                     available |-> IF err = "InsufficientBalance"
                                   THEN InsufficientBalanceArgs(balances, sender,
                                                                amount).available
                                   ELSE 0,
                     signal |-> "none"]
    /\ IF err # "ok"
       THEN /\ balances' = IF err = "Reentrant" THEN balances ELSE newBal
            /\ UNCHANGED <<status, tokenBal, events, stack>>
       ELSE /\ status' = ENTERED
            /\ balances' = newBal
            /\ stack' = <<[op |-> op, sender |-> sender, to |-> to,
                           amount |-> amount, snap |-> State]>> \o stack
            /\ UNCHANGED <<tokenBal, events>>

Begin(op, sender, to, amount, err, newBal) ==
    /\ UNCHANGED <<deployVars, ret, uiVars, walletVars>>
    /\ pre' = IF stack = <<>> THEN State ELSE pre
    /\ prev' = IF stack # <<>> THEN prev
               ELSE IF last.op = "deposit" /\ last.result = "ok"
               THEN [sender |-> last.sender, amount |-> last.amount,
                     balance |-> pre.balances[last.sender]]
               ELSE NoDeposit
    /\ reentry' = IF stack = <<>> THEN "none"
                  ELSE IF err # "ok" THEN err ELSE "entered"
    /\ last' = IF stack # <<>> THEN last
               ELSE [op |-> op, sender |-> sender, to |-> to, amount |-> amount,
                     result |-> IF err # "ok" THEN err ELSE "pending",
                     requested |-> IF err = "InsufficientBalance"
                                   THEN InsufficientBalanceArgs(balances, sender,
                                                                amount).requested
                                   ELSE 0,
                     available |-> IF err = "InsufficientBalance"
                                   THEN InsufficientBalanceArgs(balances, sender,
                                                                amount).available
                                   ELSE 0,
                     signal |-> "none"]
    /\ IF err # "ok"
       THEN UNCHANGED <<balances, status, tokenBal, events, stack>>
       ELSE /\ status' = ENTERED
            /\ balances' = newBal
            /\ stack' = <<[op |-> op, sender |-> sender, to |-> to,
                           amount |-> amount, snap |-> State]>> \o stack
            /\ UNCHANGED <<tokenBal, events>>

deposit(sender, amount) ==
    /\ CanCall
    /\ Begin("deposit", sender, VAULT, amount,
             IF nonReentrantRejects(status) THEN "Reentrant"
             ELSE depositCheck(balances, sender, amount),
             depositEffects(balances, sender, amount))

withdraw(sender, amount) ==
    /\ CanCall
    /\ Begin("withdraw", sender, sender, amount,
             IF nonReentrantRejects(status) THEN "Reentrant"
             ELSE withdrawCheck(balances, sender, amount),
             withdrawEffects(balances, sender, amount))

transfer(sender, to, amount) ==
    /\ CanCall
    /\ Begin("transfer", sender, to, amount,
             IF nonReentrantRejects(status) THEN "Reentrant"
             ELSE transferCheck(balances, sender, to, amount),
             transferEffects(balances, sender, to, amount))

\* The external token call of the innermost suspended call returns.
ExternalCallReturns(signal) ==
    /\ stack # <<>>
    /\ LET f == Head(stack)
           call == externalCall(f.op, f.sender, f.to, f.amount)
           ok == safeERC20Success(signal)
           top == Len(stack) = 1
       IN  /\ signal \in TokenSignals(tokenBal, call)
           /\ stack' = Tail(stack)
           /\ last' = IF top
                      THEN [last EXCEPT !.result = IF ok THEN "ok" ELSE "TokenFailed",
                                        !.signal = signal]
                      ELSE last
           /\ reentry' = IF top THEN reentry
                         ELSE IF ok THEN "ok" ELSE "TokenFailed"
           /\ IF ok
              THEN /\ tokenBal' = IF TokenSucceeded(signal)
                                  THEN TokenMoved(tokenBal, call) ELSE tokenBal
                   /\ events' = Append(events, emitted(f.op, f.sender, f.to, f.amount))
                   /\ status' = nonReentrantAfter
                   /\ UNCHANGED balances
              ELSE /\ balances' = f.snap.balances
                   /\ status' = f.snap.status
                   /\ tokenBal' = f.snap.tokenBal
                   /\ events' = f.snap.events
    /\ UNCHANGED <<pre, prev>>
    /\ UNCHANGED <<deployVars, ret, uiVars, walletVars>>

Next ==
    \/ \E s \in Users, n \in Amounts : deposit(s, n)
    \/ \E s \in Users, n \in Amounts : withdraw(s, n)
    \/ \E s \in Users, t \in Addr, n \in Amounts : transfer(s, t, n)
    \/ \E sig \in Signals : ExternalCallReturns(sig)

Spec == Init /\ [][Next]_vars

\* ------------------------------------------------------ view functions
\* A call of balanceOf(account), made at any time, also from inside the
\* token while the guard is held; view functions carry no nonReentrant.
balanceOfCall(account) ==
    /\ constructed = "ok"
    /\ ret' = [fn |-> "balanceOf", arg |-> account, value |-> balanceOf(account)]
    /\ UNCHANGED <<vaultVars, uiVars, walletVars>>

\* A call of totalVaultBalance().
totalVaultBalanceCall ==
    /\ constructed = "ok"
    /\ ret' = [fn |-> "totalVaultBalance", arg |-> VAULT,
               value |-> totalVaultBalance]
    /\ UNCHANGED <<vaultVars, uiVars, walletVars>>

\* The vault with its view functions called between and inside the calls of
\* two transactions fewer than Spec follows.
ViewScope == stack # <<>> \/ Len(events) < MaxEvents - 2

ViewNext ==
    \/ \E s \in Users, n \in Amounts : ViewScope /\ deposit(s, n)
    \/ \E s \in Users, n \in Amounts : ViewScope /\ withdraw(s, n)
    \/ \E s \in Users, t \in Addr, n \in Amounts : ViewScope /\ transfer(s, t, n)
    \/ \E sig \in Signals : ExternalCallReturns(sig)
    \/ \E a \in Addr : balanceOfCall(a)
    \/ totalVaultBalanceCall

ViewSpec == Init /\ [][ViewNext]_vars

\* ------------------------------------------------------ frontend actions
\* executeTx up to its first await (lines 218-221): fn() has been called and
\* its promise is awaited.
executeTx(label) ==
    /\ \E r \in Runs : pc[r] = "idle"
    /\ LET r == CHOOSE x \in Runs :
                    /\ pc[x] = "idle"
                    /\ \A y \in Runs : pc[y] = "idle" => x <= y
       IN  pc' = [pc EXCEPT ![r] = "fn"]
    /\ error' = ""
    /\ txHash' = ""
    /\ loading' = label
    /\ exit' = "none"
    /\ UNCHANGED <<amountInput, recipientInput, tab, allowance, vaultAddress>>

\* setError(msg) as the whole effect of a handler
OnlyError(msg) ==
    /\ error' = msg
    /\ UNCHANGED <<pc, loading, txHash, amountInput, recipientInput, tab,
                   allowance, vaultAddress, exit>>

\* Approve button (lines 853-861) and handleApprove (lines 237-244)
handleApprove ==
    /\ tab = "deposit" /\ needsApproval
    /\ ~(isLoading \/ amountInput = "" \/ ~vaultDeployed)
    /\ IF ~vaultDeployed THEN OnlyError("Vault contract not deployed yet.")
       ELSE executeTx("Approving")
    /\ UNCHANGED <<vaultVars, ret, walletVars>>

\* Deposit button (lines 862-870) and handleDeposit (lines 246-253)
handleDeposit ==
    /\ tab = "deposit"
    /\ ~(isLoading \/ amountInput = "" \/ needsApproval \/ ~vaultDeployed)
    /\ IF ~vaultDeployed THEN OnlyError("Vault contract not deployed yet.")
       ELSE executeTx("Depositing")
    /\ UNCHANGED <<vaultVars, ret, walletVars>>

\* Withdraw button (lines 871-879) and handleWithdraw (lines 255-262)
handleWithdraw ==
    /\ tab = "withdraw"
    /\ ~(isLoading \/ amountInput = "" \/ ~vaultDeployed)
    /\ IF ~vaultDeployed THEN OnlyError("Vault contract not deployed yet.")
       ELSE executeTx("Withdrawing")
    /\ UNCHANGED <<vaultVars, ret, walletVars>>

\* Transfer button (lines 880-888) and handleTransfer (lines 264-283)
handleTransfer ==
    /\ tab = "transfer"
    /\ ~(isLoading \/ amountInput = "" \/ recipientInput = "")
    /\ IF recipientInput = "" \/ ~isAddress(recipientInput)
       THEN OnlyError("Enter a valid recipient address.")
       ELSE IF vaultDeployed THEN executeTx("Transferring")
       ELSE executeTx("Sending USDC")
    /\ UNCHANGED <<vaultVars, ret, walletVars>>

\* catch and finally of executeTx (lines 227-233)
Caught(r, e, how) ==
    /\ error' = ErrorMessage(e)
    /\ loading' = ""
    /\ pc' = [pc EXCEPT ![r] = "idle"]
    /\ exit' = how
    /\ UNCHANGED <<txHash, amountInput, recipientInput, tab, allowance,
                   vaultAddress>>

\* The promise of fn() settles (lines 221-223): resolved with a transaction
\* whose hash is recorded before tx.wait() is awaited, or rejected.
fnSettles(r, resolved, e) ==
    /\ pc[r] = "fn"
    /\ IF resolved
       THEN /\ txHash' = "0xhash"
            /\ pc' = [pc EXCEPT ![r] = "wait"]
            /\ UNCHANGED <<loading, error, amountInput, recipientInput, tab,
                           allowance, vaultAddress, exit>>
       ELSE Caught(r, e, "rejected")
    /\ UNCHANGED <<vaultVars, ret, walletVars>>

\* The promise of tx.wait() settles (lines 223-224): resolved, and
\* refreshBalances() is called and awaited, or rejected.
waitSettles(r, resolved, e) ==
    /\ pc[r] = "wait"
    /\ IF resolved
       THEN /\ pc' = [pc EXCEPT ![r] = "refresh"]
            /\ UNCHANGED <<loading, error, txHash, amountInput, recipientInput, tab,
                           allowance, vaultAddress, exit>>
       ELSE Caught(r, e, "waitFailed")
    /\ UNCHANGED <<vaultVars, ret, walletVars>>

\* How a refreshBalances run ends (lines 150-184): it returns at once (no
\* signer or wrong network), reads everything, fails reading the allowance
\* (inner catch, allowance "0"), or fails before (outer catch, logged).
RefreshOutcomes == {"skipped", "read", "allowanceFailed", "failed"}

\* The promise of refreshBalances() resolves, as it does however the refresh
\* went, and executeTx runs to its end (lines 224-226, 231-233).
refreshSettles(r, outcome, allow) ==
    /\ pc[r] = "refresh"
    /\ allowance' = IF ~vaultDeployed \/ outcome \in {"skipped", "failed"}
                    THEN allowance
                    ELSE IF outcome = "allowanceFailed" THEN 0
                    ELSE allow
    /\ amountInput' = ""
    /\ recipientInput' = ""
    /\ loading' = ""
    /\ pc' = [pc EXCEPT ![r] = "idle"]
    /\ exit' = IF outcome \in {"allowanceFailed", "failed"}
               THEN "refreshFailed" ELSE "success"
    /\ UNCHANGED <<error, txHash, tab, vaultAddress>>
    /\ UNCHANGED <<vaultVars, ret, walletVars>>

\* A refreshBalances run started by the polling timer (lines 187-191)
\* completes: of the frontend state above it writes the allowance.
pollRefresh(outcome, allow) ==
    /\ allowance' = IF ~vaultDeployed \/ outcome \in {"skipped", "failed"}
                    THEN allowance
                    ELSE IF outcome = "allowanceFailed" THEN 0
                    ELSE allow
    /\ UNCHANGED <<pc, loading, error, txHash, amountInput, recipientInput, tab,
                   vaultAddress, exit>>
    /\ UNCHANGED <<vaultVars, ret, walletVars>>

\* onChange of the amount input (line 847)
setAmount(v) ==
    /\ amountInput' = v
    /\ UNCHANGED <<pc, loading, error, txHash, recipientInput, tab, allowance,
                   vaultAddress, exit>>
    /\ UNCHANGED <<vaultVars, ret, walletVars>>

\* onChange of the recipient input (line 832)
setRecipient(v) ==
    /\ tab = "transfer"
    /\ recipientInput' = v
    /\ UNCHANGED <<pc, loading, error, txHash, amountInput, tab, allowance,
                   vaultAddress, exit>>
    /\ UNCHANGED <<vaultVars, ret, walletVars>>

\* onClick of a tab (lines 787-791)
setTab(t) ==
    /\ tab' = t
    /\ error' = ""
    /\ txHash' = ""
    /\ UNCHANGED <<pc, loading, amountInput, recipientInput, allowance,
                   vaultAddress, exit>>
    /\ UNCHANGED <<vaultVars, ret, walletVars>>

UiInitial ==
    /\ ret = NoRet
    /\ \E deployed \in BOOLEAN : UiInit(deployed)
    /\ ctorArg = TOKEN
    /\ constructed = constructor(ctorArg)
    /\ usdc = boundHandle(ctorArg)
    /\ balances = [a \in Addr |-> 0]
    /\ status = NOT_ENTERED
    /\ tokenBal = [a \in Addr |-> IF a \in Users THEN InitWallet ELSE 0]
    /\ events = <<>>
    /\ stack = <<>>
    /\ last = NoCall
    /\ reentry = "none"
    /\ pre = State
    /\ prev = NoDeposit

UiNext ==
    \/ handleApprove
    \/ handleDeposit
    \/ handleWithdraw
    \/ handleTransfer
    \/ \E r \in Runs, ok \in BOOLEAN, e \in Rejections : fnSettles(r, ok, e)
    \/ \E r \in Runs, ok \in BOOLEAN, e \in Rejections : waitSettles(r, ok, e)
    \/ \E r \in Runs, o \in RefreshOutcomes, a \in 0..MaxAllowance :
           refreshSettles(r, o, a)
    \/ \E o \in RefreshOutcomes, a \in 0..MaxAllowance : pollRefresh(o, a)
    \/ \E v \in AmountInputs : setAmount(v)
    \/ \E v \in RecipientInputs : setRecipient(v)
    \/ \E t \in Tabs : setTab(t)

\* Every awaited promise settles: the wallet answers, the transaction is
\* mined or dropped, the reads of the refresh return.
UiSpec ==
    /\ UiInitial
    /\ [][UiNext]_vars
    /\ WF_vars(\E r \in Runs, ok \in BOOLEAN, e \in Rejections : fnSettles(r, ok, e))
    /\ WF_vars(\E r \in Runs, ok \in BOOLEAN, e \in Rejections : waitSettles(r, ok, e))
    /\ WF_vars(\E r \in Runs, o \in RefreshOutcomes, a \in 0..MaxAllowance :
                   refreshSettles(r, o, a))

\* ------------------------------------------- frontend: refreshBalances
\* refreshBalances up to its first read (lines 150-156), called from a render
\* whose signer, isCorrectNetwork and vaultAddress are sg, net and vault: it
\* returns at once, or is suspended in provider.getBalance(addr).
refreshBalances(sg, net, vault) ==
    IF sg = "none" \/ ~net THEN refreshes
    ELSE refreshes \cup {[addr |-> sg, vault |-> vault, at |-> "getBalance"]}

\* The refreshBalances runs in progress after a call of refreshBalances.
Started(tasks) ==
    /\ refreshes' = tasks
    /\ Cardinality(tasks) <= MaxRefreshes

\* connectWallet (lines 77-120) runs to its end; it is called by the Connect
\* button, by chainChanged and by accountsChanged with an account. The
\* wallet answers with account addr on the right network or not.
connectWallet(addr, net, outcome) ==
    /\ outcome = "addFailed" => ~net
    /\ error' = IF outcome = "failed" THEN "Connection failed"
                ELSE IF outcome = "addFailed"
                THEN "Could not add Arc Testnet. Please add it manually in MetaMask."
                ELSE ""
    /\ IF outcome = "failed"
       THEN UNCHANGED <<signer, connectedAccount, isCorrectNetwork>>
       ELSE /\ signer' = addr
            /\ connectedAccount' = addr
            /\ isCorrectNetwork' = net
    /\ UNCHANGED <<pc, loading, txHash, amountInput, recipientInput, tab,
                   allowance, exit, vaultAddress>>
    /\ UNCHANGED <<refreshes, txClosure, shownWallet, shownVault, shownAllowance>>
    /\ UNCHANGED <<vaultVars, ret>>

\* handleAccounts with no account (lines 200-203)
handleAccounts ==
    /\ connectedAccount' = ""
    /\ signer' = "none"
    /\ UNCHANGED <<isCorrectNetwork, refreshes, txClosure, shownWallet,
                   shownVault, shownAllowance>>
    /\ UNCHANGED <<vaultVars, ret, uiVars>>

\* The polling timer, or the effect that installs it, calls refreshBalances
\* of the current render (lines 187-191).
timerTick ==
    /\ Started(refreshBalances(signer, isCorrectNetwork, vaultAddress))
    /\ UNCHANGED <<signer, connectedAccount, isCorrectNetwork, txClosure,
                   shownWallet, shownVault, shownAllowance>>
    /\ UNCHANGED <<vaultVars, ret, uiVars>>

\* Save of the vault configuration (lines 975-982): the address is set and
\* refreshBalances of the render of the click is called.
saveVault(v) ==
    /\ vaultAddress' = v
    /\ Started(refreshBalances(signer, isCorrectNetwork, vaultAddress))
    /\ UNCHANGED <<signer, connectedAccount, isCorrectNetwork, txClosure,
                   shownWallet, shownVault, shownAllowance>>
    /\ UNCHANGED <<vaultVars, ret, formVars>>

\* A click starts an executeTx run (lines 216-221), which keeps the
\* refreshBalances of the render of the click. The operations card is
\* rendered for a connected account on the right network (lines 729, 752).
executeTxStarts ==
    /\ ~txClosure.live
    /\ connectedAccount # ""
    /\ isCorrectNetwork
    /\ txClosure' = [live |-> TRUE, signer |-> signer, net |-> isCorrectNetwork,
                     vault |-> vaultAddress]
    /\ UNCHANGED <<signer, connectedAccount, isCorrectNetwork, refreshes,
                   shownWallet, shownVault, shownAllowance>>
    /\ UNCHANGED <<vaultVars, ret, uiVars>>

\* The run's transaction is confirmed and the run calls the refreshBalances
\* it kept (line 224), or the run fails before (lines 227-230).
executeTxRefreshes(confirmed) ==
    /\ txClosure.live
    /\ txClosure' = NoClosure
    /\ Started(IF confirmed
               THEN refreshBalances(txClosure.signer, txClosure.net,
                                    txClosure.vault)
               ELSE refreshes)
    /\ UNCHANGED <<signer, connectedAccount, isCorrectNetwork,
                   shownWallet, shownVault, shownAllowance>>
    /\ UNCHANGED <<vaultVars, ret, uiVars>>

\* provider.getBalance(addr) settles (lines 156-158): the balance is written
\* and the vault balance is read next if a vault is configured, or the
\* refresh ends in its outer catch.
getBalanceSettles(t, ok) ==
    /\ t \in refreshes
    /\ t.at = "getBalance"
    /\ shownWallet' = IF ok THEN t.addr ELSE shownWallet
    /\ refreshes' = IF ok /\ t.vault # ""
                    THEN (refreshes \ {t}) \cup {[t EXCEPT !.at = "balanceOf"]}
                    ELSE refreshes \ {t}
    /\ UNCHANGED <<signer, connectedAccount, isCorrectNetwork, txClosure,
                   shownVault, shownAllowance>>
    /\ UNCHANGED <<vaultVars, ret, uiVars>>

\* vault.balanceOf(addr) settles (lines 161-169)
balanceOfSettles(t, ok) ==
    /\ t \in refreshes
    /\ t.at = "balanceOf"
    /\ shownVault' = IF ok THEN [addr |-> t.addr, vault |-> t.vault]
                     ELSE ZeroShown
    /\ refreshes' = (refreshes \ {t}) \cup {[t EXCEPT !.at = "allowance"]}
    /\ UNCHANGED <<signer, connectedAccount, isCorrectNetwork, txClosure,
                   shownWallet, shownAllowance>>
    /\ UNCHANGED <<vaultVars, ret, uiVars>>

\* usdc.allowance(addr, vaultAddress) settles (lines 172-180)
allowanceSettles(t, ok, allow) ==
    /\ t \in refreshes
    /\ t.at = "allowance"
    /\ shownAllowance' = IF ok THEN [addr |-> t.addr, vault |-> t.vault]
                         ELSE ZeroShown
    /\ allowance' = IF ok THEN allow ELSE 0
    /\ refreshes' = refreshes \ {t}
    /\ UNCHANGED <<pc, loading, error, txHash, amountInput, recipientInput, tab,
                   exit, vaultAddress>>
    /\ UNCHANGED <<signer, connectedAccount, isCorrectNetwork, txClosure,
                   shownWallet, shownVault>>
    /\ UNCHANGED <<vaultVars, ret>>

Tasks ==
    [addr : Users, vault : VaultAddresses \cup {""},
     at : {"getBalance", "balanceOf", "allowance"}]

RefreshNext ==
    \/ \E a \in Users, net \in BOOLEAN,
          o \in {"connected", "addFailed", "failed"} : connectWallet(a, net, o)
    \/ handleAccounts
    \/ timerTick
    \/ \E v \in VaultAddresses : saveVault(v)
    \/ executeTxStarts
    \/ \E c \in BOOLEAN : executeTxRefreshes(c)
    \/ \E t \in Tasks, ok \in BOOLEAN : getBalanceSettles(t, ok)
    \/ \E t \in Tasks, ok \in BOOLEAN : balanceOfSettles(t, ok)
    \/ \E t \in Tasks, ok \in BOOLEAN, a \in 0..MaxAllowance :
           allowanceSettles(t, ok, a)

RefreshSpec == UiInitial /\ [][RefreshNext]_vars

TypeOK ==
    /\ balances \in [Addr -> 0..UINT_MAX]
    /\ status \in {NOT_ENTERED, ENTERED}
    /\ \A a \in Addr : tokenBal[a] >= 0
    /\ Len(events) <= MaxEvents
    /\ Len(stack) <= MaxDepth

\* ------------------------------------------------------------ properties
\* No vault call is suspended: the state between transactions.
Idle == stack = <<>>

\* The last transaction was a call of op that completed successfully.
Succeeded(op) == Idle /\ last.op = op /\ last.result = "ok"

\* The last transaction was a call of op whose token call signalled failure.
TokenFailedIn(op) == Idle /\ last.op = op /\ last.signal \in {"false", "revert"}

SumOfBalances(bal) == SumOver(bal, Addr)

RECURSIVE EventTotal(_, _)
EventTotal(log, name) ==
    IF log = <<>> THEN 0
    ELSE (IF Head(log).name = name THEN Head(log).amount ELSE 0)
         + EventTotal(Tail(log), name)

\* C1: between operations the sum of all internal balances never exceeds the
\* token balance the token reports for the vault (totalVaultBalance).
C1_Solvency ==
    Idle => SumOfBalances(balances) <= totalVaultBalance

\* C2: while a deposit, withdraw or transfer is suspended in its token call,
\* no call made from inside the token enters the vault: each such call fails
\* with Reentrant and leaves balances and guard as they were.
C2_ReentrantRejected ==
    [][stack # <<>> =>
          /\ Len(stack') <= Len(stack)
          /\ stack' = stack =>
                 /\ reentry' = "Reentrant"
                 /\ balances' = balances
                 /\ status' = status]_vars

C2_Witness ==
    /\ stack # <<>>
    /\ reentry = "Reentrant"

\* C3: when the token pull inside deposit fails (false return or revert), all
\* internal balances and the guard are what they were before the call.
C3_DepositRollback ==
    TokenFailedIn("deposit") =>
        /\ balances = pre.balances
        /\ status = pre.status

C3_Witness ==
    /\ TokenFailedIn("deposit")
    /\ last.result = "TokenFailed"
    /\ last.amount > 0

\* C4: when the token push inside withdraw or transfer fails, the operation
\* fails, all internal balances are back at their pre-call values and no
\* event has been emitted; nothing of the operation persists.
C4_PushFailureAtomic ==
    (TokenFailedIn("withdraw") \/ TokenFailedIn("transfer")) =>
        /\ last.result = "TokenFailed"
        /\ balances = pre.balances
        /\ events = pre.events
        /\ tokenBal = pre.tokenBal
        /\ status = pre.status

C4_Witness ==
    /\ TokenFailedIn("withdraw")
    /\ last.amount <= pre.balances[last.sender]

\* C5: a successful top-level withdraw(n) by A pushes exactly n tokens to A
\* and lowers A's internal balance by exactly n, n being at most A's balance
\* at call entry, whatever the token attempted during the push.
C5_NoOverDrain ==
    Succeeded("withdraw") =>
        /\ tokenBal[last.sender] = pre.tokenBal[last.sender] + last.amount
        /\ balances[last.sender] = pre.balances[last.sender] - last.amount
        /\ last.amount <= pre.balances[last.sender]

C5_Witness ==
    /\ Succeeded("withdraw")
    /\ reentry = "Reentrant"

\* C6: the guard is unlocked exactly when no operation is executing, on every
\* exit path, and no top-level operation is rejected with Reentrant.
C6_GuardRelease ==
    /\ Idle <=> status = NOT_ENTERED
    /\ ~Idle <=> status = ENTERED
    /\ last.result # "Reentrant"

C6_Witness ==
    /\ Idle
    /\ Len(events) >= 2
    /\ last.result = "TokenFailed"

\* C7: a successful deposit(n), n > 0, by A raises balanceOf(A) by exactly n
\* and leaves every other account's internal balance unchanged.
C7_DepositExact ==
    Succeeded("deposit") =>
        /\ last.amount > 0
        /\ balanceOf(last.sender) = pre.balances[last.sender] + last.amount
        /\ \A a \in Addr \ {last.sender} : balanceOf(a) = pre.balances[a]

C7_Witness ==
    /\ Succeeded("deposit")
    /\ pre.balances[last.sender] > 0

\* C8: a successful transfer(B, n) by A, A # B, lowers balanceOf(A) by exactly
\* n, raises balanceOf(B) by exactly n and changes no third account.
C8_TransferExact ==
    (Succeeded("transfer") /\ last.to # last.sender) =>
        /\ last.amount > 0
        /\ balanceOf(last.sender) = pre.balances[last.sender] - last.amount
        /\ balanceOf(last.to) = pre.balances[last.to] + last.amount
        /\ \A a \in Addr \ {last.sender, last.to} : balanceOf(a) = pre.balances[a]

C8_Witness ==
    /\ Succeeded("transfer")
    /\ last.to \in Users \ {last.sender}

\* C9: a successful deposit(n) raises the sum of internal balances by n, a
\* successful withdraw(n) lowers it by n, a successful transfer and every
\* failed operation leave it unchanged; between operations the sum equals
\* the total deposited minus the total withdrawn.
C9_SumAccounting ==
    Idle =>
        /\ SumOfBalances(balances) - SumOfBalances(pre.balances) =
               (IF last.result # "ok" THEN 0
                ELSE IF last.op = "deposit" THEN last.amount
                ELSE IF last.op = "withdraw" THEN 0 - last.amount
                ELSE 0)
        /\ SumOfBalances(balances) =
               EventTotal(events, "Deposited") - EventTotal(events, "Withdrawn")

C9_Witness ==
    /\ Idle
    /\ EventTotal(events, "Deposited") > 0
    /\ EventTotal(events, "Withdrawn") > 0
    /\ EventTotal(events, "Transferred") > 0

\* C10 as stated: a successful deposit(n) raises the vault's token holdings
\* by n taken from the caller, a successful withdraw(n) lowers them by n paid
\* to the caller, a successful transfer(to, n) lowers them by n paid to `to`.
C10_CustodyDeltas ==
    /\ Succeeded("deposit") =>
           /\ totalVaultBalance = pre.tokenBal[VAULT] + last.amount
           /\ tokenBal[last.sender] = pre.tokenBal[last.sender] - last.amount
    /\ Succeeded("withdraw") =>
           /\ totalVaultBalance = pre.tokenBal[VAULT] - last.amount
           /\ tokenBal[last.sender] = pre.tokenBal[last.sender] + last.amount
    /\ Succeeded("transfer") =>
           totalVaultBalance = pre.tokenBal[VAULT] - last.amount

\* C10 amended: as stated, for a transfer whose recipient is not the vault's
\* own address; a successful transfer(address(this), n) pays the vault itself
\* and leaves its token holdings unchanged.
C10_CustodyDeltasAmended ==
    /\ Succeeded("deposit") =>
           /\ totalVaultBalance = pre.tokenBal[VAULT] + last.amount
           /\ tokenBal[last.sender] = pre.tokenBal[last.sender] - last.amount
    /\ Succeeded("withdraw") =>
           /\ totalVaultBalance = pre.tokenBal[VAULT] - last.amount
           /\ tokenBal[last.sender] = pre.tokenBal[last.sender] + last.amount
    /\ (Succeeded("transfer") /\ last.to # VAULT) =>
           /\ totalVaultBalance = pre.tokenBal[VAULT] - last.amount
           /\ tokenBal[last.to] = pre.tokenBal[last.to] + last.amount
    /\ (Succeeded("transfer") /\ last.to = VAULT) =>
           totalVaultBalance = pre.tokenBal[VAULT]

C10_Witness ==
    /\ Succeeded("transfer")
    /\ last.to \in Users
    /\ tokenBal[last.to] > InitWallet

\* The last transaction was a top-level call of op that has finished.
Finished(op) == Idle /\ last.op = op

ValidationErrors == {"ZeroAmount", "ZeroAddress", "InsufficientBalance"}

\* C11: between operations, a withdraw(n) by A with 0 < n <= balanceOf(A)
\* succeeds.
C11_WithdrawAvailable ==
    (/\ Finished("withdraw")
     /\ last.amount > 0
     /\ last.amount <= pre.balances[last.sender]) =>
        last.result = "ok"

\* C12: a top-level withdraw(n) by A with n > balanceOf(A) fails with
\* InsufficientBalance and leaves every balance, the token holdings, the
\* guard and the log unchanged.
C12_WithdrawInsufficient ==
    (Finished("withdraw") /\ last.amount > pre.balances[last.sender]) =>
        /\ last.result = "InsufficientBalance"
        /\ State = pre

C12_Witness ==
    /\ Finished("withdraw")
    /\ pre.balances[last.sender] > 0
    /\ last.amount > pre.balances[last.sender]

\* C13: an operation that fails with ZeroAmount, ZeroAddress or
\* InsufficientBalance changes nothing (balances, token balances, guard,
\* event log) and never calls the token.
C13_ValidationNoMutation ==
    (Idle /\ last.result \in ValidationErrors) =>
        /\ State = pre
        /\ last.signal = "none"

C13_Witness ==
    /\ Idle
    /\ last.result \in ValidationErrors
    /\ Len(events) >= 1
    /\ last.amount > 0

\* The balance map a call c writes from bal.
Written(bal, c) ==
    IF c.op = "deposit" THEN [bal EXCEPT ![c.sender] = @ + c.amount]
    ELSE IF c.op = "withdraw" THEN [bal EXCEPT ![c.sender] = @ - c.amount]
    ELSE LET debited == [bal EXCEPT ![c.sender] = @ - c.amount]
         IN  [debited EXCEPT ![c.to] = @ + c.amount]

\* C14: in deposit, withdraw and transfer every balance write is made before
\* the external token call (while the call is suspended in the token the
\* balances are the written ones, the token has moved nothing and no event
\* is out), no balance write is made after the call has returned (the
\* balances after a successful call are those at the suspension), and the
\* event is emitted only when the call returned successfully.
C14_ChecksEffectsInteractions ==
    /\ Len(stack) = 1 =>
           /\ balances = Written(pre.balances, last)
           /\ tokenBal = pre.tokenBal
           /\ events = pre.events
    /\ (Idle /\ last.result = "ok") =>
           /\ balances = Written(pre.balances, last)
           /\ events = Append(pre.events,
                              emitted(last.op, last.sender, last.to, last.amount))
    /\ (Idle /\ last.result # "ok") =>
           /\ balances = pre.balances
           /\ events = pre.events

C14_Witness ==
    /\ Succeeded("withdraw")
    /\ Len(events) = Len(pre.events) + 1

\* The amount by which the internal balances exceed the vault's holdings.
Unbacked(bal, tb) == SumOfBalances(bal) - tb[VAULT]

\* C15 as stated: while a call is suspended in the token, the state read
\* through balanceOf and totalVaultBalance is never half-applied: if the
\* internal balances were backed by the holdings at call entry, they are
\* backed at the suspension point.
C15_ConsistentAtSuspension ==
    (Len(stack) = 1 /\ Unbacked(pre.balances, pre.tokenBal) <= 0) =>
        Unbacked(balances, tokenBal) <= 0

\* C15 amended: at the suspension point of withdraw and transfer the
\* internal balances are no less backed than at call entry; at the
\* suspension point of deposit the credit is already readable while the
\* holdings are unchanged, so the balances exceed their backing at entry by
\* exactly the amount.
C15_SuspensionAmended ==
    Len(stack) = 1 =>
        /\ last.op \in {"withdraw", "transfer"} =>
               Unbacked(balances, tokenBal) <= Unbacked(pre.balances, pre.tokenBal)
        /\ last.op = "deposit" =>
               /\ balanceOf(last.sender) = pre.balances[last.sender] + last.amount
               /\ totalVaultBalance = pre.tokenBal[VAULT]
               /\ Unbacked(balances, tokenBal) =
                      Unbacked(pre.balances, pre.tokenBal) + last.amount

C15_Witness ==
    /\ Len(stack) = 1
    /\ last.op = "deposit"
    /\ Unbacked(pre.balances, pre.tokenBal) <= 0
    /\ Unbacked(balances, tokenBal) > 0

\* C16: two successful deposit(n) calls by the same account, one right after
\* the other, raise its balanceOf by exactly 2n, whatever the token attempted
\* during either call.
C16_TwoDeposits ==
    (/\ Succeeded("deposit")
     /\ prev.sender = last.sender
     /\ prev.amount = last.amount) =>
        balanceOf(last.sender) = prev.balance + 2 * last.amount

C16_Witness ==
    /\ Succeeded("deposit")
    /\ prev.sender = last.sender
    /\ prev.amount = last.amount
    /\ reentry = "Reentrant"

\* The log of a fresh vault after a deposited d, and after a then withdrew w.
AfterDeposit(a, d) == <<emitted("deposit", a, VAULT, d)>>
AfterWithdraw(a, d, w) == <<emitted("deposit", a, VAULT, d), emitted("withdraw", a, a, w)>>

\* The scenario on a fresh vault for the amounts d and w: after A deposits d,
\* balanceOf(A) = d and totalVaultBalance() = d; after A then withdraws w,
\* balanceOf(A) = d - w; A's transfer(B, d - w) then succeeds and yields
\* balanceOf(A) = 0 and balanceOf(B) = d - w.
Scenario(a, d, w) ==
    /\ (Idle /\ events = AfterDeposit(a, d)) =>
           /\ balanceOf(a) = d
           /\ totalVaultBalance = d
    /\ (Idle /\ events = AfterWithdraw(a, d, w)) =>
           balanceOf(a) = d - w
    /\ (/\ Finished("transfer")
        /\ pre.events = AfterWithdraw(a, d, w)
        /\ last.sender = a
        /\ last.to \notin {a, ZERO}
        /\ last.amount = d - w) =>
           /\ last.result = "ok"
           /\ balanceOf(a) = 0
           /\ balanceOf(last.to) = d - w

\* C17 as stated: the scenario holds for all amounts d >= w > 0.
C17_Scenario ==
    \A a \in Users, d \in Amounts, w \in Amounts :
        (d >= w /\ w > 0) => Scenario(a, d, w)

\* C17 amended: the scenario holds for all amounts d > w > 0 (with d = w the
\* final transfer(B, 0) fails with ZeroAmount).
C17_ScenarioAmended ==
    /\ \A a \in Users, d \in Amounts, w \in Amounts :
           (d > w /\ w > 0) => Scenario(a, d, w)
    /\ \A a \in Users, d \in Amounts :
           (/\ d > 0
            /\ Finished("transfer")
            /\ pre.events = AfterWithdraw(a, d, d)
            /\ last.sender = a
            /\ last.to \notin {a, ZERO}
            /\ last.amount = 0) =>
               last.result = "ZeroAmount"

C17_Witness ==
    /\ Succeeded("transfer")
    /\ \E a \in Users, d \in Amounts, w \in Amounts :
           /\ d > w
           /\ w > 0
           /\ pre.events = AfterWithdraw(a, d, w)
           /\ last.sender = a
           /\ last.to \in Users \ {a}
           /\ last.amount = d - w

\* C18: a top-level deposit(0), withdraw(0) or transfer(to, 0) with a
\* non-zero `to` fails with ZeroAmount, whatever the caller's balance (never
\* with InsufficientBalance).
C18_ZeroAmount ==
    (/\ Idle
     /\ last.op \in {"deposit", "withdraw", "transfer"}
     /\ last.amount = 0
     /\ last.op = "transfer" => last.to # ZERO) =>
        last.result = "ZeroAmount"

C18_Witness ==
    /\ Finished("withdraw")
    /\ last.amount = 0
    /\ pre.balances[last.sender] = 0
    /\ last.result = "ZeroAmount"

\* C19: a top-level transfer to address(0) fails with ZeroAddress for every
\* amount and caller balance, and the internal balance of address(0) is 0 in
\* every reachable state.
C19_ZeroAddress ==
    /\ (Finished("transfer") /\ last.to = ZERO) => last.result = "ZeroAddress"
    /\ balanceOf(ZERO) = 0

C19_Witness ==
    /\ Finished("transfer")
    /\ last.to = ZERO
    /\ last.amount = 0
    /\ last.result = "ZeroAddress"

\* C20: a withdraw(n) or transfer(to, n) that fails with InsufficientBalance
\* carries requested = n and available = the caller's internal balance at
\* the call, and leaves the state unchanged.
C20_InsufficientBalanceArgs ==
    (Idle /\ last.result = "InsufficientBalance") =>
        /\ last.op \in {"withdraw", "transfer"}
        /\ last.requested = last.amount
        /\ last.available = pre.balances[last.sender]
        /\ last.available < last.requested
        /\ State = pre

C20_Witness ==
    /\ Idle
    /\ last.result = "InsufficientBalance"
    /\ last.op = "transfer"
    /\ last.available > 0

\* The state of a vault on which nothing has been executed.
Untouched ==
    /\ balances = [a \in Addr |-> 0]
    /\ status = NOT_ENTERED
    /\ events = <<>>
    /\ stack = <<>>
    /\ last = NoCall

C22_ConstructedState ==
    constructed = "ok" =>
        /\ last = NoCall =>
               /\ balances = [a \in Addr |-> 0]
               /\ status = NOT_ENTERED
        /\ usdc # ZERO
        /\ usdc = ctorArg

C22_Witness ==
    /\ constructed = "ok"
    /\ usdc = TOKEN
    /\ Len(events) >= 1

\* The account a call credits, or the zero address when it credits none.
CreditedAccount(c) ==
    IF c.op = "deposit" THEN c.sender
    ELSE IF c.op = "transfer" THEN c.to
    ELSE ZERO

\* C23: every stored balance stays within [0, 2^Width - 1] in every reachable
\* state, the balances a revert would restore included; a credit that would
\* exceed 2^Width - 1 makes the call fail (Panic) with the state unchanged,
\* a call that does not fail kept the credited balance in range, and a debit
\* is never larger than the balance it is taken from.
C23_BoundedBalances ==
    /\ \A a \in Addr : balances[a] \in 0..UINT_MAX
    /\ \A i \in 1..Len(stack) :
           \A a \in Addr : stack[i].snap.balances[a] \in 0..UINT_MAX
    /\ (Idle /\ last.result = "Panic") =>
           /\ State = pre
           /\ CreditedAccount(last) # ZERO
           /\ last.amount > 0
    /\ (last.op = "deposit" /\ last.amount > 0) =>
           (last.result = "Panic"
                <=> pre.balances[last.sender] + last.amount > UINT_MAX)
    /\ (last.op \in {"withdraw", "transfer"} /\ last.result \in {"pending", "ok"}) =>
           last.amount <= pre.balances[last.sender]

C23_Witness ==
    /\ Idle
    /\ last.op = "deposit"
    /\ last.result = "Panic"
    /\ pre.balances[last.sender] + last.amount = UINT_MAX + 1

\* C24: for the pull and the push alike, a call that reached its token call
\* succeeds iff the token call did not revert and returned true or nothing;
\* a returned false has the effect of a revert: the call fails and the state
\* is what it was before the call.
C24_SignalNormalisation ==
    (Idle /\ last.signal # "none") =>
        /\ last.result = "ok" <=> last.signal \in {"true", "void"}
        /\ last.signal \in {"false", "revert"} =>
               /\ last.result = "TokenFailed"
               /\ State = pre

C24_Witness ==
    /\ Idle
    /\ last.op = "transfer"
    /\ last.signal = "false"
    /\ last.result = "TokenFailed"
    /\ pre.balances[last.sender] >= last.amount

\* Account a has been credited: by a completed deposit of its own or a
\* completed transfer to it, or by a call that is suspended in its token call.
Credited(a) ==
    \/ \E i \in 1..Len(events) :
           \/ events[i].name = "Deposited" /\ events[i].from = a
           \/ events[i].name = "Transferred" /\ events[i].to = a
    \/ \E i \in 1..Len(stack) : CreditedAccount(stack[i]) = a

\* C25: a call of balanceOf or totalVaultBalance changes no balance, guard or
\* token state, also while the guard is held; balanceOf can be called for
\* every account in every state of a constructed vault, returns the
\* account's internal balance and returns 0 for an account that was never
\* credited; totalVaultBalance returns the token's balance of the vault.
C25_PureReads ==
    /\ [][ret' # ret =>
             /\ UNCHANGED vaultVars
             /\ ret'.fn = "balanceOf" =>
                    /\ ret'.value = balances[ret'.arg]
                    /\ ~Credited(ret'.arg) => ret'.value = 0
             /\ ret'.fn = "totalVaultBalance" =>
                    ret'.value = tokenBal[VAULT]]_vars
    /\ [](constructed = "ok" =>
             /\ \A a \in Addr : ENABLED balanceOfCall(a)
             /\ ENABLED totalVaultBalanceCall)

\* balanceOf read 0 for an account never credited, the guard held by a call
\* of an account that has a balance
C25_Witness ==
    /\ ret.fn = "balanceOf"
    /\ ret.arg \in Users
    /\ ret.value = 0
    /\ ~Credited(ret.arg)
    /\ status = ENTERED
    /\ stack # <<>>
    /\ balances[Head(stack).sender] > 0

\* The event a successful call is to append.
ExpectedEvent(c) ==
    IF c.op = "deposit"
    THEN [name |-> "Deposited", from |-> c.sender, to |-> c.sender,
          amount |-> c.amount]
    ELSE IF c.op = "withdraw"
    THEN [name |-> "Withdrawn", from |-> c.sender, to |-> c.sender,
          amount |-> c.amount]
    ELSE [name |-> "Transferred", from |-> c.sender, to |-> c.to,
          amount |-> c.amount]

\* C26: a successful deposit, withdraw or transfer appends exactly one event
\* (Deposited, Withdrawn, Transferred) carrying the caller, the recipient of
\* a transfer and the amount, after the events of the calls completed before
\* it; a call that failed, was rejected or has not completed appends none.
C26_EventLog ==
    /\ (Idle /\ last.result = "ok") =>
           events = Append(pre.events, ExpectedEvent(last))
    /\ (Idle /\ last.result # "ok") => events = pre.events
    /\ ~Idle => events = pre.events

C26_Witness ==
    /\ Idle
    /\ last.op = "transfer"
    /\ last.result = "ok"
    /\ last.to # last.sender
    /\ Len(events) = MaxEvents
    /\ events[1].name = "Deposited"
    /\ events[2].name = "Withdrawn"

\* C27: a successful transfer whose recipient is the caller leaves every
\* internal balance unchanged and moves n tokens from the vault's holdings to
\* the caller; with n > 0 it is rejected by no check when the caller's
\* balance is at least n, and then succeeds exactly when the vault holds n
\* tokens.
C27_SelfTransfer ==
    (Idle /\ last.op = "transfer" /\ last.to = last.sender) =>
        /\ last.result = "ok" =>
               /\ balances = pre.balances
               /\ tokenBal[last.sender] = pre.tokenBal[last.sender] + last.amount
               /\ tokenBal[VAULT] = pre.tokenBal[VAULT] - last.amount
        /\ (last.amount > 0 /\ pre.balances[last.sender] >= last.amount) =>
               /\ last.result \in {"ok", "TokenFailed"}
               /\ last.result = "ok" <=> pre.tokenBal[VAULT] >= last.amount

\* two self-transfers in a row, the caller's balance still what it deposited
C27_Witness ==
    /\ Idle
    /\ Len(events) = 3
    /\ events[1].name = "Deposited"
    /\ \A i \in {2, 3} :
           /\ events[i].name = "Transferred"
           /\ events[i].from = events[1].from
           /\ events[i].to = events[1].from
    /\ balances[events[1].from] = events[1].amount
    /\ tokenBal[VAULT] = 0

\* What the vault has pushed to x: x's withdraws and the transfers to x.
PushedTo(x) ==
    LET out == [i \in 1..Len(events) |->
                   IF \/ events[i].name = "Withdrawn" /\ events[i].from = x
                      \/ events[i].name = "Transferred" /\ events[i].to = x
                   THEN events[i].amount ELSE 0]
    IN  SumOver(out, 1..Len(events))

\* What x has deposited and what other accounts have transferred to x.
ReceivedBy(x) ==
    LET in == [i \in 1..Len(events) |->
                  IF \/ events[i].name = "Deposited" /\ events[i].from = x
                     \/ /\ events[i].name = "Transferred"
                        /\ events[i].to = x
                        /\ events[i].from # x
                  THEN events[i].amount ELSE 0]
    IN  SumOver(in, 1..Len(events))

\* C28: for every account x, what the vault has pushed to x (x's withdraws
\* and the transfers naming x as recipient) never exceeds what x has
\* deposited plus what other accounts have transferred to x.
C28_NoDoublePayout ==
    \A x \in Users : PushedTo(x) <= ReceivedBy(x)

\* C29: a call made by an account never decreases the internal balance of
\* another account; deposit and withdraw change no other account's balance,
\* and transfer changes, of the other accounts, only the recipient's.
C29_NoThirdPartyDebit ==
    \A a \in Addr :
        a # last.sender =>
            /\ balances[a] >= pre.balances[a]
            /\ balances[a] # pre.balances[a] =>
                   /\ last.op = "transfer"
                   /\ a = last.to

C29_Witness ==
    /\ Idle
    /\ last.op = "transfer"
    /\ last.result = "ok"
    /\ last.to # last.sender
    /\ balances[last.to] = pre.balances[last.to] + last.amount
    /\ \E c \in Addr \ {last.sender, last.to} :
           /\ balances[c] > 0
           /\ balances[c] = pre.balances[c]

\* An executeTx run is in progress.
InFlight == {r \in Runs : pc[r] # "idle"}

Running == InFlight # {}

\* C30 as stated: loading is set exactly while an executeTx run is in
\* progress and every run ends, clearing it; the hash is recorded when the
\* submission resolves, before tx.wait() is awaited, and the refresh starts
\* only when tx.wait() has resolved; a run that ends by a rejected
\* submission, a failed tx.wait() or a failed refresh sets an error message
\* and leaves the amount and recipient inputs as they are.
C30_ExecuteTx ==
    /\ [](Running <=> loading # "")
    /\ (loading # "") ~> (loading = "")
    /\ [][\A r \in Runs : (pc[r] = "fn" /\ pc'[r] = "wait") => txHash' # ""]_vars
    /\ [][\A r \in Runs :
             (pc'[r] = "refresh" /\ pc[r] # "refresh") => pc[r] = "wait"]_vars
    /\ [][(Running /\ ~Running'
             /\ exit' \in {"rejected", "waitFailed", "refreshFailed"}) =>
               /\ error' # ""
               /\ amountInput' = amountInput
               /\ recipientInput' = recipientInput]_vars

\* C30 amended: as C30, except that a failing refresh does not fail the run:
\* a run that ends by a rejected submission or a failed tx.wait() sets an
\* error message and leaves the amount and recipient inputs as they are; a
\* run that reaches the refresh ends, whether the refresh failed or not, with
\* the inputs cleared and no error message.
C30_ExecuteTxAmended ==
    /\ [](Running <=> loading # "")
    /\ (loading # "") ~> (loading = "")
    /\ [][\A r \in Runs : (pc[r] = "fn" /\ pc'[r] = "wait") => txHash' # ""]_vars
    /\ [][\A r \in Runs :
             (pc'[r] = "refresh" /\ pc[r] # "refresh") => pc[r] = "wait"]_vars
    /\ [][(Running /\ ~Running') =>
               /\ loading' = ""
               /\ exit' \in {"rejected", "waitFailed"} =>
                      /\ \E r \in InFlight : pc[r] \in {"fn", "wait"}
                      /\ error' # ""
                      /\ amountInput' = amountInput
                      /\ recipientInput' = recipientInput
               /\ exit' \in {"success", "refreshFailed"} =>
                      /\ \E r \in InFlight : pc[r] = "refresh"
                      /\ error' = ""
                      /\ amountInput' = ""
                      /\ recipientInput' = ""]_vars

C30_Witness ==
    /\ exit = "waitFailed"
    /\ ~Running
    /\ loading = ""
    /\ error = "Transaction failed"
    /\ txHash = "0xhash"
    /\ amountInput = "2"
    /\ recipientInput = "0xB"

\* C31: vault.deposit is submitted from the UI only when the last-read
\* allowance is at least the entered amount, nothing is loading and a vault
\* address is configured; while the allowance is below the entered amount on
\* the deposit tab, Deposit (and every other action but Approve) is
\* disabled, and Approve is enabled unless something is loading or no vault
\* is configured.
C31_DepositGating ==
    /\ [][(loading' = "Depositing" /\ loading # "Depositing") =>
             /\ tab = "deposit"
             /\ amountInput # ""
             /\ allowance >= parseUnits(amountInput)
             /\ loading = ""
             /\ vaultDeployed]_vars
    /\ []((tab = "deposit" /\ amountInput # ""
             /\ allowance < parseUnits(amountInput)) =>
               /\ ~ENABLED handleDeposit
               /\ ~ENABLED handleWithdraw
               /\ ~ENABLED handleTransfer
               /\ ENABLED handleApprove <=> (loading = "" /\ vaultDeployed))

\* a deposit submitted with the allowance exactly the entered amount
C31_Witness ==
    /\ loading = "Depositing"
    /\ \E r \in Runs : pc[r] = "fn"
    /\ tab = "deposit"
    /\ amountInput = "2"
    /\ allowance = parseUnits("2")

\* Some action button can be clicked.
SomeButtonEnabled ==
    \/ ENABLED handleApprove
    \/ ENABLED handleDeposit
    \/ ENABLED handleWithdraw
    \/ ENABLED handleTransfer

\* C32: at most one executeTx run is in progress at any time; while a run
\* is in progress loading is non-empty and no action button is enabled,
\* whatever the user types or clicks and whenever the run's promises settle.
C32_SingleInFlight ==
    /\ Cardinality(InFlight) <= 1
    /\ Running => (loading # "" /\ ~SomeButtonEnabled)

\* a run waits for its confirmation while the transfer tab holds a complete
\* form, whose button is disabled
C32_Witness ==
    /\ \E r \in Runs : pc[r] = "wait"
    /\ loading = "Withdrawing"
    /\ tab = "transfer"
    /\ amountInput = "1"
    /\ recipientInput = "0xB"
    /\ ~SomeButtonEnabled

\* C33: a step of a refreshBalances run that writes the wallet balance, the
\* vault balance or the allowance writes the value of the account that is
\* connected and of the vault address that is configured at that moment, and
\* no such value is written while there is no signer or the network is wrong.
C33_Freshness ==
    /\ [][shownWallet' # shownWallet => shownWallet' = connectedAccount]_vars
    /\ [][(shownVault' # shownVault /\ shownVault' # ZeroShown) =>
             shownVault' = [addr |-> connectedAccount, vault |-> vaultAddress]]_vars
    /\ [][(shownAllowance' # shownAllowance /\ shownAllowance' # ZeroShown) =>
             shownAllowance' = [addr |-> connectedAccount,
                                vault |-> vaultAddress]]_vars
    /\ [][(signer = "none" \/ ~isCorrectNetwork) =>
             UNCHANGED <<shownWallet, shownVault, shownAllowance>>]_vars
====
